---- MODULE Spec2Model ----
(***************************************************************************)
(* Model of zupee-memwatch's automated leak detector                       *)
(* (src/src/leak-detector.ts): LeakDetectionController.run() and the       *)
(* methods it calls, with the file-size analysis of analyzeSnapshots.      *)
(*                                                                         *)
(* Every private method of the controller is one action; what an external *)
(* command (docker, kubectl, fs, fetch) does is a nondeterministic choice  *)
(* among the outcomes the method distinguishes (it returns, or a given     *)
(* command throws).                                                        *)
(*                                                                         *)
(* File sizes and thresholds are integers of bytes.  A number of MB is the *)
(* exact quotient bytes / (1024*1024), kept as the fraction num/den: the   *)
(* division of an integer below 2^53 by 2^20 is exact in IEEE doubles, so  *)
(* the fraction is the value the code computes.                            *)
(***************************************************************************)
EXTENDS Integers, Sequences, FiniteSets, TLC

\* ------------------------------------------------------------------ bounds
\* largest size in bytes of a snapshot file written by takeSnapshot
MaxFileSize == 3
\* thresholds range over -MaxThreshold .. MaxThreshold (parseInt accepts a sign)
MaxThreshold == 3
\* replica counts (--replica-count, and the deployment's own) range over 1..MaxReplicaCount
MaxReplicaCount == 2
\* the most Date.now() advances while a capture run waits, in clock units
MaxTick == 1
\* how many takeSnapshot() calls on one InContainerSnapshotTrigger are modelled
MaxCalls == 2
\* how many requests reach the maintenance middleware
MaxRequests == 2
\* retained sizes of a type in one snapshot range over 0..MaxTypeSize bytes
MaxTypeSize == 2

\* calls of start() and stop() made on one MemWatchAgent
MaxAgentCalls == 3

\* --------------------------------------------------------------- constants
\* 1024 * 1024, the divisor of every bytes -> MB conversion
BytesPerMB == 1048576
\* waitForReplacementReadiness: const maxAttempts = 30
maxAttempts == 30
\* the key of a generated session id: Math.floor(Math.random() * 900) + 100
FirstSessionKey == 100

FileSizes == 0..MaxFileSize
Thresholds == (0 - MaxThreshold)..MaxThreshold
Strategies == {"docker", "k8s"}

\* the JavaScript values the model needs besides numbers and booleans
Undefined == "undefined"
EmptyId == ""
ReplacementName == "replacement-1"
UnknownSource == "Unknown - detailed analysis required"
\* a path at which no file exists, and a file of a given size in bytes
NoFile == [exists |-> FALSE]
File(size) == [exists |-> TRUE, size |-> size]
\* no SnapshotAnalysis has been built
NoAnalysis == [none |-> TRUE]
\* the promise returned by run(): not settled, resolved with a value, rejected
Pending == [state |-> "pending"]
Resolved(value) == [state |-> "resolved", value |-> value]
Rejected == [state |-> "rejected"]

VARIABLES
  config,        \* this.config: replaceStrategy, cleanup, webhook, analysisThreshold
  pc,            \* position of run()
  replacementId, \* this.replacementId
  attempts,      \* the local counter of waitForReplacementReadiness
  target,        \* the target pod: drain annotation and readiness condition
  replacement,   \* the replacement container or pod on the platform
  hostFiles,     \* the snapshot files in outputDir: size in bytes or NoFile
  analysis,      \* the SnapshotAnalysis of run(), or NoAnalysis
  reports,       \* files written by generateReport
  webhookPosts,  \* number of POSTs of the analysis that reached fetch
  log,           \* the methods run() has invoked, in order
  thrown,        \* the method whose error reached the catch block of run()
  promise,       \* the promise returned by run()
  analyses       \* results of analyzeSnapshots on the same files, by threshold

\* the state of LeakDetectionController.run() and of its analysis
runVars == <<config, pc, replacementId, attempts, target, replacement, hostFiles,
             analysis, reports, webhookPosts, log, thrown, promise,
             analyses>>

VARIABLES
  capture,        \* the capture run: flow, strategy, replicaCount, capture command
  capturePc,      \* position of executeHttpCapture / ZeroDowntimeSnapshotCapture.execute
  sessionEnv,     \* process.env.MEMWATCH_SESSION_ID
  now,            \* Date.now()
  snapshots,      \* the local snapshot file of each phase and the session in its name
  uploaded,       \* the phases whose snapshot was delivered to the dashboard
  socket,         \* this.ws of ZeroDowntimeSnapshotCapture: "null", "open", "closed"
  scaling,        \* deploymentName, originalReplicas and the replicas and containers on the platform
  captureLog,     \* the steps the capture run has started, in order
  captureThrown,  \* the step whose error reached the catch block of the capture run
  capturePromise  \* the promise returned by the capture run

\* the state of a capture run
captureVars == <<capture, capturePc, sessionEnv, now, snapshots, uploaded, socket,
                 scaling, captureLog, captureThrown, capturePromise>>

VARIABLES
  cliOptions,     \* the options of the analyze command and the sizes of its two files
  cliPc,          \* position of the action of the analyze command
  cliAnalysis,    \* let analysis
  cliOutput,      \* the file at options.output
  cliExit,        \* the code given to process.exit, <<>> while the process runs
  cliLog          \* what the analyze command has done, in order

cliVars == <<cliOptions, cliPc, cliAnalysis, cliOutput, cliExit, cliLog>>

VARIABLES
  maintenanceMode, \* this.maintenanceMode of InContainerSnapshotTrigger
  hooks,           \* whether onBeforeSnapshot / onAfterSnapshot are set
  callPc,          \* position of each takeSnapshot() call
  callResult,      \* what each takeSnapshot() call resolved to, <<>> before that
  triggerFiles,    \* whether the file at each call's outputPath is completely written
  callTrace,       \* what each takeSnapshot() call has awaited and how it ended, in order
  responses        \* what the middleware did with each request, in order of arrival

triggerVars == <<maintenanceMode, hooks, callPc, callResult, triggerFiles, callTrace,
                 responses>>

VARIABLES
  aggregates,     \* the type-name -> TypeAggregate mapping of each snapshot
  enginePc,       \* position of the analysis engine: "diff", "classify", "done"
  typeDeltas,     \* the TypeDelta rows produced by the Differ
  ranked          \* the ranked offender list produced by the Classifier & Ranker

engineVars == <<aggregates, enginePc, typeDeltas, ranked>>

VARIABLES
  loadPc,         \* position inside LeakDetectionController.analyzeSnapshots
  stats           \* beforeStats and afterStats: "pending", "failed" or the size read

loadVars == <<loadPc, stats>>

VARIABLES
  isRunning,      \* this.isRunning of MemWatchAgent
  agentConfig,    \* this.config of MemWatchAgent
  DEFAULT_CONFIG, \* the static object MemWatchAgent.DEFAULT_CONFIG
  handles,        \* whether intervalId, eventLoopMonitor and ws are set
  calls           \* the start() and stop() calls made so far, in order

agentVars == <<isRunning, agentConfig, DEFAULT_CONFIG, handles, calls>>

\* the variables that LeakDetectionController.run() never touches
laterVars == <<captureVars, cliVars, triggerVars, engineVars, loadVars, agentVars>>
\* the variables that a capture run never touches
outsideCapture == <<runVars, cliVars, triggerVars, engineVars, loadVars, agentVars>>
\* the variables that the analyze command never touches
outsideCli == <<runVars, captureVars, triggerVars, engineVars, loadVars, agentVars>>
\* the variables that InContainerSnapshotTrigger never touches
outsideTrigger == <<runVars, captureVars, cliVars, engineVars, loadVars, agentVars>>
\* the variables that the analysis engine never touches
outsideEngine == <<runVars, captureVars, cliVars, triggerVars, loadVars, agentVars>>
\* the variables that MemWatchAgent never touches
outsideAgent == <<runVars, captureVars, cliVars, triggerVars, engineVars, loadVars>>
\* the variables besides those of run() that analyzeSnapshots never touches
outsideLoad == <<captureVars, cliVars, triggerVars, engineVars, agentVars>>

vars == <<runVars, laterVars>>

\* ------------------------------------------------------- JavaScript values
\* truthiness of a string-or-undefined value (if (this.replacementId), if (this.config.webhook))
Truthy(v) == v # Undefined /\ v # EmptyId

\* x / (1024 * 1024) for an integer number of bytes x
BytesToMB(x) == [num |-> x, den |-> BytesPerMB]

\* Math.abs on a number of MB
absMB(x) == [num |-> IF x.num < 0 THEN 0 - x.num ELSE x.num, den |-> x.den]

\* x > y on numbers of MB (denominators are positive)
GreaterMB(x, y) == x.num * y.den > y.num * x.den

\* the number of MB that is zero
ZeroMB == BytesToMB(0)

\* --------------------------------------------------------------- the config
\* the defaults of the constructor, before ...config overrides them
DefaultConfig ==
  [replaceStrategy |-> "docker", cleanup |-> TRUE,
   analysisThreshold |-> 10 * 1024 * 1024, webhook |-> EmptyId]

\* the configurations the run command can construct
Configs ==
  [replaceStrategy : Strategies, cleanup : BOOLEAN,
   analysisThreshold : Thresholds, webhook : {EmptyId, "http://hook"}]

\* ------------------------------------------------------------ the analysis
\* growthMBOf with the operands of the subtraction exchanged
growthMBOfReversed(beforeSize, afterSize) == BytesToMB(beforeSize - afterSize)

\* const growthMB = (afterStats.size - beforeStats.size) / (1024 * 1024)
growthMBOf(beforeSize, afterSize) == BytesToMB(afterSize - beforeSize)

\* suspiciousGrowthOf with >= in place of >
suspiciousGrowthOfInclusive(growthMB, analysisThreshold) ==
  ~GreaterMB(BytesToMB(analysisThreshold), absMB(growthMB))

\* suspiciousGrowthOf with the two sides of the comparison exchanged
suspiciousGrowthOfBelow(growthMB, analysisThreshold) ==
  GreaterMB(BytesToMB(analysisThreshold), absMB(growthMB))

\* Math.abs(growthMB) > (this.config.analysisThreshold / (1024 * 1024))
suspiciousGrowthOf(growthMB, analysisThreshold) ==
  GreaterMB(absMB(growthMB), BytesToMB(analysisThreshold))

\* likelyLeakSource: suspiciousGrowth ? 'Unknown - detailed analysis required' : undefined
likelyLeakSourceOf(suspiciousGrowth) ==
  IF suspiciousGrowth THEN UnknownSource ELSE Undefined

\* the SnapshotAnalysis built from the two file sizes read by fs.statSync
analyzeSnapshots(beforeSize, afterSize, analysisThreshold) ==
  LET growthMB == growthMBOf(beforeSize, afterSize)
      suspiciousGrowth == suspiciousGrowthOf(growthMB, analysisThreshold)
  IN [before |-> [totalSize |-> beforeSize, nodeCount |-> 0, filename |-> "before"],
      after |-> [totalSize |-> afterSize, nodeCount |-> 0, filename |-> "after"],
      offenders |-> <<>>,
      summary |-> [totalGrowthMB |-> growthMB,
                   suspiciousGrowth |-> suspiciousGrowth,
                   likelyLeakSource |-> likelyLeakSourceOf(suspiciousGrowth)]]

\* exitCodeOf with the two exit codes exchanged
exitCodeOfSwapped(a) == IF a.summary.suspiciousGrowth THEN 0 ELSE 1

\* const exitCode = analysis.summary.suspiciousGrowth ? 1 : 0
exitCodeOf(a) == IF a.summary.suspiciousGrowth THEN 1 ELSE 0

\* ------------------------------------------------------------------- Init
\* no capture run has been started
CaptureIdle ==
  /\ capture = [flow |-> "http", strategy |-> "docker", replicaCount |-> 2,
                timeframe |-> 1, setsSession |-> FALSE]
  /\ capturePc = "idle"
  /\ sessionEnv = <<>>
  /\ now = 0
  /\ snapshots = [before |-> [taken |-> FALSE, exists |-> FALSE, session |-> <<>>],
                  after |-> [taken |-> FALSE, exists |-> FALSE, session |-> <<>>]]
  /\ uploaded = {}
  /\ socket = "null"
  /\ scaling = [deploymentName |-> Undefined, originalReplicas |-> <<>>,
                replicas |-> 1, startReplicas |-> 1, containers |-> {}, added |-> {}]
  /\ captureLog = <<>>
  /\ captureThrown = Undefined
  /\ capturePromise = Pending

\* the analyze command has not been started
CliIdle ==
  /\ cliOptions = [basic |-> FALSE, threshold |-> 0, before |-> 0, after |-> 0]
  /\ cliPc = "idle"
  /\ cliAnalysis = NoAnalysis
  /\ cliOutput = NoFile
  /\ cliExit = <<>>
  /\ cliLog = <<>>

\* calls of takeSnapshot() an InContainerSnapshotTrigger may have under way
Calls == 1..MaxCalls

\* no takeSnapshot() call was made and no request has arrived
TriggerIdle ==
  /\ maintenanceMode = FALSE
  /\ hooks = [before |-> FALSE, after |-> FALSE]
  /\ callPc = [c \in Calls |-> "idle"]
  /\ callResult = [c \in Calls |-> <<>>]
  /\ triggerFiles = [c \in Calls |-> FALSE]
  /\ callTrace = [c \in Calls |-> <<>>]
  /\ responses = <<>>

\* the analysis engine has not been given snapshots
EngineIdle ==
  /\ aggregates = [before |-> <<>>, after |-> <<>>]
  /\ enginePc = "idle"
  /\ typeDeltas = <<>>
  /\ ranked = <<>>

\* analyzeSnapshots is not being followed step by step
LoadIdle ==
  /\ loadPc = "idle"
  /\ stats = [before |-> "pending", after |-> "pending"]

\* private static readonly DEFAULT_CONFIG = { dashboardUrl: 'ws://localhost:4000',
\* checkInterval: 10000, leakThresholdMB: 50, enableHeapSnapshots: false,
\* snapshotPath: './snapshots', historySize: 12 }
DefaultMemWatchConfig ==
  [dashboardUrl |-> "ws://localhost:4000", checkInterval |-> 10000,
   leakThresholdMB |-> 50, enableHeapSnapshots |-> FALSE,
   snapshotPath |-> "./snapshots", historySize |-> 12]

\* {} as Required<MemWatchConfig>
EmptyObject == <<>>

\* a MemWatchAgent after its constructor: not running, config {}
AgentIdle ==
  /\ isRunning = FALSE
  /\ agentConfig = EmptyObject
  /\ DEFAULT_CONFIG = DefaultMemWatchConfig
  /\ handles = [intervalId |-> FALSE, eventLoopMonitor |-> FALSE, ws |-> FALSE]
  /\ calls = <<>>

\* nothing but LeakDetectionController is in use
LaterIdle ==
  CaptureIdle /\ CliIdle /\ TriggerIdle /\ EngineIdle /\ LoadIdle /\ AgentIdle

\* the state shared by both specifications: nothing has run yet
Fresh ==
  /\ replacementId = Undefined
  /\ attempts = 0
  /\ target = [drainAnnotation |-> FALSE, ready |-> TRUE]
  /\ replacement = "none"
  /\ analysis = NoAnalysis
  /\ reports = [json |-> FALSE, summary |-> FALSE]
  /\ webhookPosts = 0
  /\ log = <<>>
  /\ thrown = Undefined
  /\ promise = Pending
  /\ analyses = [t \in Thresholds |-> NoAnalysis]

\* a controller right after new LeakDetectionController(config), run() about to start
Init ==
  /\ config \in Configs
  /\ pc = "ensureOutputDir"
  /\ hostFiles = [before |-> NoFile, after |-> NoFile]
  /\ Fresh
  /\ LaterIdle

\* ------------------------------------------------------------ run(): helpers
\* an error thrown inside the try block of run() by the method m
Throw(m) == pc' = "catch" /\ thrown' = m

\* the method m is invoked
Invoke(m) == log' = Append(log, m)

\* ShouldCleanup without the test of this.config.cleanup
ShouldCleanupAlways == Truthy(replacementId)

\* if (this.config.cleanup && this.replacementId)
ShouldCleanup == config.cleanup /\ Truthy(replacementId)

\* the states cleanupReplacement can leave the replacement in; its own
\* try/catch swallows the error of every command
cleanupOutcomes ==
  IF config.replaceStrategy = "docker"
  THEN {replacement, "stopped", "removed"}
  ELSE {replacement, "removed"}

\* ------------------------------------------------------------ run(): steps
\* this.ensureOutputDir(): existsSync / mkdirSync return or throw
ensureOutputDir ==
  /\ pc = "ensureOutputDir"
  /\ Invoke("ensureOutputDir")
  /\ \/ pc' = "discoverTargetMetadata" /\ UNCHANGED thrown
     \/ Throw("ensureOutputDir")
  /\ UNCHANGED <<config, replacementId, attempts, target, replacement, hostFiles,
                 analysis, reports, webhookPosts, promise, analyses>>
  /\ UNCHANGED laterVars

\* Step 1: docker inspect / kubectl get pod, then JSON.parse
discoverTargetMetadata ==
  /\ pc = "discoverTargetMetadata"
  /\ Invoke("discoverTargetMetadata")
  /\ \/ pc' = "startReplacementContainer" /\ UNCHANGED thrown
     \/ Throw("discoverTargetMetadata")
  /\ UNCHANGED <<config, replacementId, attempts, target, replacement, hostFiles,
                 analysis, reports, webhookPosts, promise, analyses>>
  /\ UNCHANGED laterVars

\* Step 2: this.replacementId = await this.startReplacementContainer(metadata).
\* docker: docker run -d throws, or prints the id of the started container.
\* k8s: a command before the scale throws; or the deployment is scaled to 2
\* replicas and the query for the new pod throws, or prints no name (the new
\* pod is not Running yet), or prints the name of the new pod.
startReplacementContainer ==
  /\ pc = "startReplacementContainer"
  /\ Invoke("startReplacementContainer")
  /\ \/ Throw("startReplacementContainer") /\ UNCHANGED <<replacementId, replacement>>
     \/ /\ config.replaceStrategy = "k8s"
        /\ replacement' = "running"
        /\ Throw("startReplacementContainer")
        /\ UNCHANGED replacementId
     \/ /\ config.replaceStrategy = "k8s"
        /\ replacement' = "running"
        /\ replacementId' = EmptyId
        /\ pc' = "waitForReplacementReadiness"
        /\ UNCHANGED thrown
     \/ /\ replacement' = "running"
        /\ replacementId' = ReplacementName
        /\ pc' = "waitForReplacementReadiness"
        /\ UNCHANGED thrown
  /\ UNCHANGED <<config, attempts, target, hostFiles, analysis, reports,
                 webhookPosts, promise, analyses>>
  /\ UNCHANGED laterVars

\* Step 3: poll the state of this.replacementId up to maxAttempts times; n is
\* the number of polls that did not see it running (an error of the poll is
\* caught and counts as one).  Without a name no poll can see it running.
waitForReplacementReadiness ==
  /\ pc = "waitForReplacementReadiness"
  /\ Invoke("waitForReplacementReadiness")
  /\ \E n \in 0..maxAttempts :
       /\ attempts' = n
       /\ IF n < maxAttempts
          THEN Truthy(replacementId) /\ pc' = "drainTarget" /\ UNCHANGED thrown
          ELSE Throw("waitForReplacementReadiness")
  /\ UNCHANGED <<config, replacementId, target, replacement, hostFiles, analysis,
                 reports, webhookPosts, promise, analyses>>
  /\ UNCHANGED laterVars

\* Step 4: docker only logs; k8s patches the drain annotation, then the
\* readiness condition, and each patch can throw.  Then the grace period.
drainTarget ==
  /\ pc = "drainTarget"
  /\ Invoke("drainTarget")
  /\ IF config.replaceStrategy = "docker"
     THEN pc' = "takeSnapshot:before" /\ UNCHANGED <<target, thrown>>
     ELSE \/ Throw("drainTarget") /\ UNCHANGED target
          \/ /\ target' = [target EXCEPT !.drainAnnotation = TRUE]
             /\ Throw("drainTarget")
          \/ /\ target' = [drainAnnotation |-> TRUE, ready |-> FALSE]
             /\ pc' = "takeSnapshot:before"
             /\ UNCHANGED thrown
  /\ UNCHANGED <<config, replacementId, attempts, replacement, hostFiles, analysis,
                 reports, webhookPosts, promise, analyses>>
  /\ UNCHANGED laterVars

\* takeSnapshot(phase): exec of the snapshot command in the target, then cp of
\* the file to outputDir; either command can throw, and then no file arrives.
takeSnapshot(phase, next) ==
  /\ pc = "takeSnapshot:" \o phase
  /\ Invoke("takeSnapshot:" \o phase)
  /\ \/ Throw("takeSnapshot:" \o phase) /\ UNCHANGED hostFiles
     \/ \E size \in FileSizes :
          /\ hostFiles' = [hostFiles EXCEPT ![phase] = File(size)]
          /\ pc' = next
          /\ UNCHANGED thrown
  /\ UNCHANGED <<config, replacementId, attempts, target, replacement, analysis,
                 reports, webhookPosts, promise, analyses>>
  /\ UNCHANGED laterVars

\* Step 5: const beforePath = await this.takeSnapshot('before')
takeBeforeSnapshot == takeSnapshot("before", "delay")

\* Step 6: await new Promise(resolve => setTimeout(resolve, delay * 60 * 1000))
delay ==
  /\ pc = "delay"
  /\ Invoke("delay")
  /\ pc' = "takeSnapshot:after"
  /\ UNCHANGED <<config, replacementId, attempts, target, replacement, hostFiles,
                 analysis, reports, webhookPosts, thrown, promise, analyses>>
  /\ UNCHANGED laterVars

\* Step 7: const afterPath = await this.takeSnapshot('after')
takeAfterSnapshot == takeSnapshot("after", "restoreTarget")

\* Step 8: docker only logs; k8s removes the drain annotation, then patches
\* the readiness condition back to True, and each patch can throw.
restoreTarget ==
  /\ pc = "restoreTarget"
  /\ Invoke("restoreTarget")
  /\ IF config.replaceStrategy = "docker"
     THEN pc' = "analyzeSnapshots" /\ UNCHANGED <<target, thrown>>
     ELSE \/ Throw("restoreTarget") /\ UNCHANGED target
          \/ /\ target' = [target EXCEPT !.drainAnnotation = FALSE]
             /\ Throw("restoreTarget")
          \/ /\ target' = [drainAnnotation |-> FALSE, ready |-> TRUE]
             /\ pc' = "analyzeSnapshots"
             /\ UNCHANGED thrown
  /\ UNCHANGED <<config, replacementId, attempts, replacement, hostFiles, analysis,
                 reports, webhookPosts, promise, analyses>>
  /\ UNCHANGED laterVars

\* analyzeSnapshotsStep with the error of fs.statSync caught inside the
\* method, so that run() goes on to the report without an analysis
analyzeSnapshotsStepContinue ==
  /\ pc = "analyzeSnapshots"
  /\ Invoke("analyzeSnapshots")
  /\ \/ pc' = "generateReport" /\ UNCHANGED <<analysis, thrown>>
     \/ /\ hostFiles.before.exists /\ hostFiles.after.exists
        /\ analysis' = analyzeSnapshots(hostFiles.before.size, hostFiles.after.size,
                                        config.analysisThreshold)
        /\ pc' = "generateReport"
        /\ UNCHANGED thrown
  /\ UNCHANGED <<config, replacementId, attempts, target, replacement, hostFiles,
                 reports, webhookPosts, promise, analyses>>
  /\ UNCHANGED laterVars

\* Step 9: fs.statSync of both files (either can throw), then the analysis
analyzeSnapshotsStep ==
  /\ pc = "analyzeSnapshots"
  /\ Invoke("analyzeSnapshots")
  /\ \/ Throw("analyzeSnapshots") /\ UNCHANGED analysis
     \/ /\ hostFiles.before.exists /\ hostFiles.after.exists
        /\ analysis' = analyzeSnapshots(hostFiles.before.size, hostFiles.after.size,
                                        config.analysisThreshold)
        /\ pc' = "generateReport"
        /\ UNCHANGED thrown
  /\ UNCHANGED <<config, replacementId, attempts, target, replacement, hostFiles,
                 reports, webhookPosts, promise, analyses>>
  /\ UNCHANGED laterVars

\* Step 10: write the JSON report, then the text summary; either write can throw
generateReport ==
  /\ pc = "generateReport"
  /\ Invoke("generateReport")
  /\ \/ Throw("generateReport") /\ UNCHANGED reports
     \/ reports' = [reports EXCEPT !.json = TRUE] /\ Throw("generateReport")
     \/ /\ reports' = [json |-> TRUE, summary |-> TRUE]
        /\ pc' = "sendWebhook"
        /\ UNCHANGED thrown
  /\ UNCHANGED <<config, replacementId, attempts, target, replacement, hostFiles,
                 analysis, webhookPosts, promise, analyses>>
  /\ UNCHANGED laterVars

\* if (this.config.webhook) await this.sendWebhook(analysis): the POST is
\* answered (ok or not) or fetch rejects; sendWebhook catches every error
sendWebhook ==
  /\ pc = "sendWebhook"
  /\ IF Truthy(config.webhook)
     THEN /\ Invoke("sendWebhook")
          /\ \/ webhookPosts' = webhookPosts + 1
             \/ UNCHANGED webhookPosts
     ELSE UNCHANGED <<log, webhookPosts>>
  /\ pc' = "cleanup"
  /\ UNCHANGED <<config, replacementId, attempts, target, replacement, hostFiles,
                 analysis, reports, thrown, promise, analyses>>
  /\ UNCHANGED laterVars

\* if (this.config.cleanup && this.replacementId) await this.cleanupReplacement()
cleanup ==
  /\ pc = "cleanup"
  /\ IF ShouldCleanup
     THEN Invoke("cleanupReplacement") /\ replacement' \in cleanupOutcomes
     ELSE UNCHANGED <<log, replacement>>
  /\ pc' = "return"
  /\ UNCHANGED <<config, replacementId, attempts, target, hostFiles, analysis,
                 reports, webhookPosts, thrown, promise, analyses>>
  /\ UNCHANGED laterVars

\* return exitCode, with exitCode = analysis.summary.suspiciousGrowth ? 1 : 0
returnExitCode ==
  /\ pc = "return"
  /\ promise' = Resolved(exitCodeOf(analysis))
  /\ pc' = "done"
  /\ UNCHANGED <<config, replacementId, attempts, target, replacement, hostFiles,
                 analysis, reports, webhookPosts, log, thrown, analyses>>
  /\ UNCHANGED laterVars

\* catch (error): cleanup inside its own try/catch, then return 2
catch ==
  /\ pc = "catch"
  /\ IF ShouldCleanup
     THEN Invoke("cleanupReplacement") /\ replacement' \in cleanupOutcomes
     ELSE UNCHANGED <<log, replacement>>
  /\ promise' = Resolved(2)
  /\ pc' = "done"
  /\ UNCHANGED <<config, replacementId, attempts, target, hostFiles, analysis,
                 reports, webhookPosts, thrown, analyses>>
  /\ UNCHANGED laterVars

Next ==
  \/ ensureOutputDir
  \/ discoverTargetMetadata
  \/ startReplacementContainer
  \/ waitForReplacementReadiness
  \/ drainTarget
  \/ takeBeforeSnapshot
  \/ delay
  \/ takeAfterSnapshot
  \/ restoreTarget
  \/ analyzeSnapshotsStep
  \/ generateReport
  \/ sendWebhook
  \/ cleanup
  \/ returnExitCode
  \/ catch

Spec == Init /\ [][Next]_vars

\* ------------------------------------- the analysis alone, on the same files
\* two snapshot files on disk, no run in progress
InitAnalysis ==
  /\ config = DefaultConfig
  /\ pc = "idle"
  /\ hostFiles \in [before : {File(n) : n \in FileSizes}, after : {File(n) : n \in FileSizes}]
  /\ Fresh
  /\ LaterIdle

\* a controller configured with the threshold t analyses the two files
analyzeWith(t) ==
  /\ analyses[t] = NoAnalysis
  /\ analyses' = [analyses EXCEPT
                    ![t] = analyzeSnapshots(hostFiles.before.size, hostFiles.after.size, t)]
  /\ UNCHANGED <<config, pc, replacementId, attempts, target, replacement,
                 hostFiles, analysis, reports, webhookPosts, log, thrown, promise>>
  /\ UNCHANGED laterVars

NextAnalysis == \E t \in Thresholds : analyzeWith(t)

SpecAnalysis == InitAnalysis /\ [][NextAnalysis]_vars

\* ------------------------------------------------------ reading the state
\* run() has returned
Done == pc = "done"

\* the method m has been invoked by run()
Called(m) == \E i \in DOMAIN log : log[i] = m

\* how many times run() has invoked the method m
Count(m) == Cardinality({i \in DOMAIN log : log[i] = m})

\* the position of the first invocation of m
Pos(m) == CHOOSE i \in DOMAIN log : log[i] = m

\* the steps of run() from output-directory creation through report generation
StepsThroughReport ==
  {"ensureOutputDir", "discoverTargetMetadata", "startReplacementContainer",
   "waitForReplacementReadiness", "drainTarget", "takeSnapshot:before", "delay",
   "takeSnapshot:after", "restoreTarget", "analyzeSnapshots", "generateReport"}

\* every step through report generation was invoked and none threw
AllCompleted == thrown = Undefined /\ \A m \in StepsThroughReport : Called(m)

\* the growth in bytes that a result reports in its two summaries
GrowthBytes(a) == a.after.totalSize - a.before.totalSize

\* an offender of largest deltaSize
LargestOffender(offenders) ==
  CHOOSE i \in DOMAIN offenders :
    \A j \in DOMAIN offenders : offenders[i].deltaSize >= offenders[j].deltaSize

\* ----------------------------------------------------------------- claims
\* C1: suspiciousGrowth is true exactly when after.totalSize - before.totalSize
\* exceeds the configured threshold; a shrinking snapshot is never suspicious.
\* The code compares Math.abs(growthMB), so this is violated.
C1_SuspiciousIffGrowthAboveThreshold ==
  analysis # NoAnalysis =>
    (analysis.summary.suspiciousGrowth
       <=> GrowthBytes(analysis) > config.analysisThreshold)

\* C2: run() never rejects; once it has returned it has resolved with 0, 1 or
\* 2: 1 iff every step through report generation completed and
\* suspiciousGrowth is true, 0 iff they completed and it is false, 2 iff one
\* of those steps threw.
C2_ExitCode ==
  /\ promise # Rejected
  /\ Done <=> promise # Pending
  /\ Done =>
       /\ promise.state = "resolved"
       /\ promise.value \in {0, 1, 2}
       /\ promise.value = 1 <=> (AllCompleted /\ analysis.summary.suspiciousGrowth)
       /\ promise.value = 0 <=> (AllCompleted /\ ~analysis.summary.suspiciousGrowth)
       /\ promise.value = 2 <=> thrown \in StepsThroughReport

\* the webhook failed and cleanup ran, and run() still resolved with 1
C2_Witness ==
  /\ Done /\ promise = Resolved(1)
  /\ Truthy(config.webhook) /\ webhookPosts = 0
  /\ Called("cleanupReplacement")

\* C3: once run() has started to drain the target, restoreTarget is executed
\* before run() returns.  The catch block does not restore, so this is violated.
C3_RestoredBeforeReturn ==
  (Done /\ Called("drainTarget")) => Called("restoreTarget")

C5_IdenticalAnyThreshold ==
  (analysis # NoAnalysis /\ hostFiles.before = hostFiles.after) =>
    /\ analysis.summary.totalGrowthMB = ZeroMB
    /\ ~analysis.summary.suspiciousGrowth
    /\ analysis.offenders = <<>>

\* C5 amended: the same for every threshold that is not negative.
C5_IdenticalNonNegativeThreshold ==
  (analysis # NoAnalysis /\ hostFiles.before = hostFiles.after
     /\ config.analysisThreshold >= 0) =>
    /\ analysis.summary.totalGrowthMB = ZeroMB
    /\ ~analysis.summary.suspiciousGrowth
    /\ analysis.offenders = <<>>

\* identical files analysed under the threshold 0
C5_Witness ==
  /\ analysis # NoAnalysis
  /\ hostFiles.before = hostFiles.after
  /\ config.analysisThreshold = 0

\* C6: on the same two files, suspiciousGrowth under a threshold implies
\* suspiciousGrowth under every smaller threshold.
C6_ThresholdMonotone ==
  \A t1 \in Thresholds : \A t2 \in Thresholds :
    (/\ t1 <= t2
     /\ analyses[t1] # NoAnalysis
     /\ analyses[t2] # NoAnalysis
     /\ analyses[t2].summary.suspiciousGrowth)
    => analyses[t1].summary.suspiciousGrowth

\* the same files are suspicious under one threshold and not under a larger one
C6_Witness ==
  \E t1 \in Thresholds : \E t2 \in Thresholds :
    /\ t1 < t2
    /\ analyses[t1] # NoAnalysis
    /\ analyses[t2] # NoAnalysis
    /\ analyses[t1].summary.suspiciousGrowth
    /\ ~analyses[t2].summary.suspiciousGrowth

\* C7: likelyLeakSource is the type of the offender of largest deltaSize, and
\* absent when there are no offenders.  The code sets a placeholder string
\* whenever growth is suspicious, with no offenders, so this is violated.
C7_LikelyLeakSource ==
  analysis # NoAnalysis =>
    IF analysis.offenders = <<>>
    THEN analysis.summary.likelyLeakSource = Undefined
    ELSE analysis.summary.likelyLeakSource =
           analysis.offenders[LargestOffender(analysis.offenders)].type

\* C8: a report is written and a webhook sent only after both snapshots were
\* captured and analysed; when a capture or the analysis throws, nothing is
\* written or sent and run() resolves with 2.
C8_NoPartialResult ==
  /\ thrown \in {"takeSnapshot:before", "takeSnapshot:after", "analyzeSnapshots"} =>
       /\ reports = [json |-> FALSE, summary |-> FALSE]
       /\ webhookPosts = 0
       /\ ~Called("generateReport") /\ ~Called("sendWebhook")
       /\ analysis = NoAnalysis
       /\ Done => promise = Resolved(2)
  /\ (Called("generateReport") \/ Called("sendWebhook")
        \/ reports.json \/ reports.summary \/ webhookPosts > 0) =>
       /\ analysis # NoAnalysis
       /\ hostFiles.before.exists /\ hostFiles.after.exists

\* the after snapshot failed after the before snapshot had been captured
C8_Witness ==
  /\ Done /\ thrown = "takeSnapshot:after"
  /\ hostFiles.before.exists
  /\ promise = Resolved(2)

DocumentedOrder ==
  <<"discoverTargetMetadata", "startReplacementContainer", "drainTarget",
    "takeSnapshot:before", "delay", "takeSnapshot:after", "analyzeSnapshots",
    "restoreTarget", "cleanupReplacement", "generateReport", "sendWebhook">>

\* C10: the phases run in the documented order; analysis precedes restoration,
\* and restoration and cleanup precede the report.  The code restores before
\* it analyses and cleans up last, so this is violated.
C10_DocumentedOrder ==
  \A i \in DOMAIN DocumentedOrder : \A j \in DOMAIN DocumentedOrder :
    (i < j /\ Called(DocumentedOrder[i]) /\ Called(DocumentedOrder[j]))
      => Pos(DocumentedOrder[i]) < Pos(DocumentedOrder[j])

\* LeakDetectionController.run() has not been called
RunIdle ==
  /\ config = DefaultConfig
  /\ pc = "idle"
  /\ hostFiles = [before |-> NoFile, after |-> NoFile]
  /\ Fresh

\* =========================================================================
\* The capture runs: executeHttpCapture (src/src/capture/http-capture.ts) and
\* ZeroDowntimeSnapshotCapture.execute (zero-downtime-capture.ts), started by
\* the capture command.  A snapshot counts as delivered when the upload or
\* push returned without an error, which is all the code observes.
\* =========================================================================

\* the --replica-count values and the replica counts of the deployment
ReplicaCounts == 1..MaxReplicaCount

\* the names <containerId>-scale-<i> a docker scale-up can use
ScaleNames == 1..(MaxReplicaCount - 1)

\* a capture command about to run: its options, the caller's environment and
\* what is on the platform (replicas of the deployment, scale containers left
\* over from an earlier run)
InitCapture ==
  /\ capture \in [flow : {"http", "ws"}, strategy : Strategies,
                  replicaCount : ReplicaCounts, timeframe : {0, 1},
                  setsSession : BOOLEAN]
  /\ capturePc = "command"
  /\ sessionEnv \in {<<>>, <<"custom", 0>>}
  /\ now = 0
  /\ snapshots = [before |-> [taken |-> FALSE, exists |-> FALSE, session |-> <<>>],
                  after |-> [taken |-> FALSE, exists |-> FALSE, session |-> <<>>]]
  /\ uploaded = {}
  /\ socket = "null"
  /\ \E r \in ReplicaCounts : \E left \in SUBSET ScaleNames :
       scaling = [deploymentName |-> Undefined, originalReplicas |-> <<>>,
                  replicas |-> r, startReplicas |-> r,
                  containers |-> left, added |-> {}]
  /\ captureLog = <<>>
  /\ captureThrown = Undefined
  /\ capturePromise = Pending
  /\ RunIdle
  /\ CliIdle
  /\ TriggerIdle
  /\ EngineIdle
  /\ LoadIdle
  /\ AgentIdle

\* an error thrown inside the try block of the capture run by the step m
captureThrow(m) == capturePc' = "catch" /\ captureThrown' = m

\* the step m of the capture run starts
captureInvoke(m) == captureLog' = Append(captureLog, m)

\* the capture command up to the call of the flow.  One version of the command
\* sets MEMWATCH_SESSION_ID when the caller has not; the others leave it.
\* useHttp selects executeHttpCapture or ZeroDowntimeSnapshotCapture.
captureCommand ==
  /\ capturePc = "command"
  /\ sessionEnv' = IF capture.setsSession /\ sessionEnv = <<>>
                   THEN <<"run", FirstSessionKey>> ELSE sessionEnv
  /\ capturePc' = IF capture.flow = "http" THEN "healthCheck" ELSE "connectToDashboard"
  /\ UNCHANGED <<capture, now, snapshots, uploaded, socket, scaling, captureLog,
                 captureThrown, capturePromise>>
  /\ UNCHANGED outsideCapture

\* ------------------------------------------------------ executeHttpCapture
\* const isHealthy = await client.healthCheck(); if (!isHealthy) throw
healthCheck ==
  /\ capturePc = "healthCheck"
  /\ captureInvoke("healthCheck")
  /\ \/ capturePc' = "scaleUp" /\ UNCHANGED captureThrown
     \/ captureThrow("healthCheck")
  /\ UNCHANGED <<capture, sessionEnv, now, snapshots, uploaded, socket, scaling,
                 capturePromise>>
  /\ UNCHANGED outsideCapture

\* await scaleUpContainers(config).
\* k8s: a lookup throws; or the pod has no ReplicaSet / Deployment owner and
\* nothing is scaled; or the deployment is scaled to replicaCount and kubectl
\* wait returns or throws.
\* docker: listing or inspecting throws; else the left-over scale containers
\* are removed (those in kept could not be), then containers 1..k are started
\* and the start of container k+1, if any, fails even after the retry.
scaleUpContainers ==
  /\ capturePc = "scaleUp"
  /\ capture.flow = "http"
  /\ captureInvoke("scaleUp")
  /\ IF capture.strategy = "k8s"
     THEN \/ captureThrow("scaleUp") /\ UNCHANGED scaling
          \/ capturePc' = "takeSnapshot:before" /\ UNCHANGED <<scaling, captureThrown>>
          \/ /\ scaling' = [scaling EXCEPT !.replicas = capture.replicaCount]
             /\ \/ capturePc' = "takeSnapshot:before" /\ UNCHANGED captureThrown
                \/ captureThrow("scaleUp")
     ELSE \/ captureThrow("scaleUp") /\ UNCHANGED scaling
          \/ \E kept \in SUBSET scaling.containers :
             \E k \in 0..(capture.replicaCount - 1) :
               /\ scaling' = [scaling EXCEPT !.containers = kept \cup (1..k),
                                             !.added = 1..k]
               /\ \/ captureThrow("scaleUp")
                  \/ /\ k = capture.replicaCount - 1
                     /\ capturePc' = "takeSnapshot:before"
                     /\ UNCHANGED captureThrown
  /\ UNCHANGED <<capture, sessionEnv, now, snapshots, uploaded, socket, capturePromise>>
  /\ UNCHANGED outsideCapture

\* const sessionId = process.env.MEMWATCH_SESSION_ID || `session_${Date.now()}`
sessionIdOf(env, time) == IF env # <<>> THEN env ELSE <<"session", time>>

\* takeSnapshot(config, phase) of http-capture.ts: exec and cp of the file
\* named <sessionId>_<phase>_<timestamp>; a command throws and no local file
\* exists, or the file is there
httpTakeSnapshot(phase, next) ==
  /\ capturePc = "takeSnapshot:" \o phase
  /\ capture.flow = "http"
  /\ captureInvoke("takeSnapshot:" \o phase)
  /\ \/ captureThrow("takeSnapshot:" \o phase) /\ UNCHANGED snapshots
     \/ /\ snapshots' = [snapshots EXCEPT ![phase] =
                           [taken |-> TRUE, exists |-> TRUE,
                            session |-> sessionIdOf(sessionEnv, now)]]
        /\ capturePc' = next
        /\ UNCHANGED captureThrown
  /\ UNCHANGED <<capture, sessionEnv, now, uploaded, socket, scaling, capturePromise>>
  /\ UNCHANGED outsideCapture

\* client.uploadSnapshot(...) answers success or not (every error inside is
\* caught and reported as success: false); if (!upload.success) throw
httpUpload(phase, next) ==
  /\ capturePc = "deliver:" \o phase
  /\ capture.flow = "http"
  /\ captureInvoke("deliver:" \o phase)
  /\ \/ /\ uploaded' = uploaded \cup {phase}
        /\ capturePc' = next
        /\ UNCHANGED captureThrown
     \/ captureThrow("deliver:" \o phase) /\ UNCHANGED uploaded
  /\ UNCHANGED <<capture, sessionEnv, now, snapshots, socket, scaling, capturePromise>>
  /\ UNCHANGED outsideCapture

httpTakeBefore == httpTakeSnapshot("before", "deliver:before")
httpUploadBefore == httpUpload("before", "wait")
httpTakeAfter == httpTakeSnapshot("after", "deliver:after")
httpUploadAfter == httpUpload("after", "finish")

\* await new Promise(resolve => setTimeout(resolve, timeframe * 60 * 1000)):
\* the clock advances, by at least one unit when timeframe is not 0
captureWait ==
  /\ capturePc = "wait"
  /\ captureInvoke("wait")
  /\ \E d \in 0..MaxTick :
       /\ capture.timeframe > 0 => d > 0
       /\ now' = now + d
  /\ capturePc' = "takeSnapshot:after"
  /\ UNCHANGED <<capture, sessionEnv, snapshots, uploaded, socket, scaling,
                 captureThrown, capturePromise>>
  /\ UNCHANGED outsideCapture

\* what scaleDownContainers can leave on the platform: k8s only logs; docker
\* removes the scale containers it can list, and every error is swallowed
scaleDownContainersOutcomes ==
  IF capture.strategy = "k8s"
  THEN {scaling}
  ELSE {[scaling EXCEPT !.containers = c, !.added = @ \cap c] :
          c \in SUBSET scaling.containers}

\* what the two fs.unlinkSync calls leave: both files removed, or the first
\* call throws and none is, or the second throws (the error is ignored)
unlinkOutcomes ==
  {[snapshots EXCEPT !.before.exists = FALSE, !.after.exists = FALSE],
   snapshots,
   [snapshots EXCEPT !.before.exists = FALSE]}

\* the end of the try block: completion message, scaleDownContainers, unlink
\* of the two local files, return
httpFinish ==
  /\ capturePc = "finish"
  /\ capture.flow = "http"
  /\ captureInvoke("completed")
  /\ scaling' \in scaleDownContainersOutcomes
  /\ snapshots' \in unlinkOutcomes
  /\ capturePromise' = Resolved(Undefined)
  /\ capturePc' = "done"
  /\ UNCHANGED <<capture, sessionEnv, now, uploaded, socket, captureThrown>>
  /\ UNCHANGED outsideCapture

\* catch (error): scaleDownContainers inside its own try, then throw error
httpCatch ==
  /\ capturePc = "catch"
  /\ capture.flow = "http"
  /\ scaling' \in scaleDownContainersOutcomes
  /\ capturePromise' = Rejected
  /\ capturePc' = "done"
  /\ UNCHANGED <<capture, sessionEnv, now, snapshots, uploaded, socket, captureLog,
                 captureThrown>>
  /\ UNCHANGED outsideCapture

\* ------------------------------------ ZeroDowntimeSnapshotCapture.execute
\* connectToDashboard: this.ws = new WebSocket(url); 'open' resolves, 'error'
\* rejects
connectToDashboard ==
  /\ capturePc = "connectToDashboard"
  /\ captureInvoke("connectToDashboard")
  /\ \/ socket' = "open" /\ capturePc' = "scaleUp" /\ UNCHANGED captureThrown
     \/ socket' = "closed" /\ captureThrow("connectToDashboard")
  /\ UNCHANGED <<capture, sessionEnv, now, snapshots, uploaded, scaling, capturePromise>>
  /\ UNCHANGED outsideCapture

\* this.ws.on('close', ...): the dashboard connection closes while the run is
\* under way
dashboardCloses ==
  /\ socket = "open"
  /\ capturePc # "done"
  /\ socket' = "closed"
  /\ UNCHANGED <<capture, capturePc, sessionEnv, now, snapshots, uploaded, scaling,
                 captureLog, captureThrown, capturePromise>>
  /\ UNCHANGED outsideCapture

\* scaleKubernetesPods: a lookup throws before this.deploymentName is set; or
\* the name is set and reading the deployment throws; or originalReplicas is
\* read and, when it is below replicaCount, the deployment is scaled (the
\* scale or the kubectl wait after it may throw)
scaleKubernetesPods ==
  \/ captureThrow("scaleUp") /\ UNCHANGED scaling
  \/ /\ scaling' = [scaling EXCEPT !.deploymentName = "deployment"]
     /\ captureThrow("scaleUp")
  \/ /\ scaling.replicas >= capture.replicaCount
     /\ scaling' = [scaling EXCEPT !.deploymentName = "deployment",
                                   !.originalReplicas = <<scaling.replicas>>]
     /\ capturePc' = "takeSnapshot:before"
     /\ UNCHANGED captureThrown
  \/ /\ scaling.replicas < capture.replicaCount
     /\ \/ /\ scaling' = [scaling EXCEPT !.deploymentName = "deployment",
                                         !.originalReplicas = <<scaling.replicas>>]
           /\ captureThrow("scaleUp")
        \/ /\ scaling' = [scaling EXCEPT !.deploymentName = "deployment",
                                         !.originalReplicas = <<scaling.replicas>>,
                                         !.replicas = capture.replicaCount]
           /\ \/ capturePc' = "takeSnapshot:before" /\ UNCHANGED captureThrown
              \/ captureThrow("scaleUp")

\* scaleDockerContainers: docker inspect throws; else docker run starts the
\* containers 1..k, whose names must be free, and the start of container k+1,
\* if there is one, throws.  deploymentName and originalReplicas are not set.
scaleDockerContainers ==
  \/ captureThrow("scaleUp") /\ UNCHANGED scaling
  \/ \E k \in 0..(capture.replicaCount - 1) :
       /\ (1..k) \cap scaling.containers = {}
       /\ scaling' = [scaling EXCEPT !.containers = @ \cup (1..k), !.added = 1..k]
       /\ IF k = capture.replicaCount - 1
          THEN capturePc' = "takeSnapshot:before" /\ UNCHANGED captureThrown
          ELSE captureThrow("scaleUp")

\* scaleUpPods: if (strategy === 'k8s') scaleKubernetesPods() else
\* scaleDockerContainers()
scaleUpPods ==
  /\ capturePc = "scaleUp"
  /\ capture.flow = "ws"
  /\ captureInvoke("scaleUp")
  /\ IF capture.strategy = "k8s" THEN scaleKubernetesPods ELSE scaleDockerContainers
  /\ UNCHANGED <<capture, sessionEnv, now, snapshots, uploaded, socket, capturePromise>>
  /\ UNCHANGED outsideCapture

\* takeSnapshot(phase) of ZeroDowntimeSnapshotCapture: the local file is named
\* <phase>_<serviceName>_<timestamp>, without a session id
wsTakeSnapshot(phase, next) ==
  /\ capturePc = "takeSnapshot:" \o phase
  /\ capture.flow = "ws"
  /\ captureInvoke("takeSnapshot:" \o phase)
  /\ \/ captureThrow("takeSnapshot:" \o phase) /\ UNCHANGED snapshots
     \/ /\ snapshots' = [snapshots EXCEPT ![phase] =
                           [taken |-> TRUE, exists |-> TRUE, session |-> <<>>]]
        /\ capturePc' = next
        /\ UNCHANGED captureThrown
  /\ UNCHANGED <<capture, sessionEnv, now, uploaded, socket, scaling, capturePromise>>
  /\ UNCHANGED outsideCapture

\* pushSnapshotToDashboard up to the chunk loop: throws unless the socket is
\* OPEN, reads the file (readFileSync may throw), sends the metadata
pushSnapshotToDashboard(phase) ==
  /\ capturePc = "deliver:" \o phase
  /\ capture.flow = "ws"
  /\ captureInvoke("deliver:" \o phase)
  /\ IF socket # "open"
     THEN captureThrow("deliver:" \o phase)
     ELSE \/ captureThrow("deliver:" \o phase)
          \/ capturePc' = "chunks:" \o phase /\ UNCHANGED captureThrown
  /\ UNCHANGED <<capture, sessionEnv, now, snapshots, uploaded, socket, scaling,
                 capturePromise>>
  /\ UNCHANGED outsideCapture

\* the chunk loop of pushSnapshotToDashboard (ws.send of each chunk, 10 ms
\* apart, without a callback) and the completion message.  On an open socket
\* the snapshot arrives.  On a socket that closed meanwhile ws.send either
\* throws or drops the data, as the ws library in use decides; the code does
\* not look at readyState again.
pushChunks(phase, next) ==
  /\ capturePc = "chunks:" \o phase
  /\ IF socket = "open"
     THEN /\ uploaded' = uploaded \cup {phase}
          /\ capturePc' = next
          /\ UNCHANGED captureThrown
     ELSE /\ UNCHANGED uploaded
          /\ \/ captureThrow("deliver:" \o phase)
             \/ capturePc' = next /\ UNCHANGED captureThrown
  /\ UNCHANGED <<capture, sessionEnv, now, snapshots, socket, scaling, captureLog,
                 capturePromise>>
  /\ UNCHANGED outsideCapture

wsTakeBefore == wsTakeSnapshot("before", "deliver:before")
wsPushBefore == pushSnapshotToDashboard("before")
wsChunksBefore == pushChunks("before", "wait")
wsTakeAfter == wsTakeSnapshot("after", "deliver:after")
wsPushAfter == pushSnapshotToDashboard("after")
wsChunksAfter == pushChunks("after", "finish")

\* notifyComparisonReady: throws unless the socket is OPEN, else sends
notifyComparisonReady ==
  /\ capturePc = "finish"
  /\ capture.flow = "ws"
  /\ captureInvoke("notifyComparisonReady")
  /\ IF socket # "open"
     THEN captureThrow("notifyComparisonReady")
     ELSE capturePc' = "scaleDown" /\ UNCHANGED captureThrown
  /\ UNCHANGED <<capture, sessionEnv, now, snapshots, uploaded, socket, scaling,
                 capturePromise>>
  /\ UNCHANGED outsideCapture

\* what scaleDownPods can do: nothing when deploymentName or originalReplicas
\* is not set; k8s scales back to originalReplicas or kubectl throws; the
\* docker branch only logs
scaleDownPodsOutcomes ==
  IF scaling.deploymentName = Undefined \/ scaling.originalReplicas = <<>>
  THEN {[platform |-> scaling, threw |-> FALSE]}
  ELSE IF capture.strategy = "k8s"
       THEN {[platform |-> [scaling EXCEPT !.replicas = scaling.originalReplicas[1]],
              threw |-> FALSE],
             [platform |-> scaling, threw |-> TRUE]}
       ELSE {[platform |-> scaling, threw |-> FALSE]}

\* finally { if (this.ws) this.ws.close() }
closed(ws) == IF ws = "null" THEN "null" ELSE "closed"

\* step 9 and the end of the try block: scaleDownPods, completion message,
\* finally, return; an error of scaleDownPods reaches the catch block
wsFinish ==
  /\ capturePc = "scaleDown"
  /\ \E o \in scaleDownPodsOutcomes :
       /\ scaling' = o.platform
       /\ IF o.threw
          THEN /\ captureThrow("scaleDown")
               /\ captureInvoke("scaleDown")
               /\ UNCHANGED <<socket, capturePromise>>
          ELSE /\ captureLog' = captureLog \o <<"scaleDown", "completed">>
               /\ socket' = closed(socket)
               /\ capturePromise' = Resolved(Undefined)
               /\ capturePc' = "done"
               /\ UNCHANGED captureThrown
  /\ UNCHANGED <<capture, sessionEnv, now, snapshots, uploaded>>
  /\ UNCHANGED outsideCapture

\* catch (error): scaleDownPods inside its own try, throw error; finally
wsCatch ==
  /\ capturePc = "catch"
  /\ capture.flow = "ws"
  /\ \E o \in scaleDownPodsOutcomes : scaling' = o.platform
  /\ socket' = closed(socket)
  /\ capturePromise' = Rejected
  /\ capturePc' = "done"
  /\ UNCHANGED <<capture, sessionEnv, now, snapshots, uploaded, captureLog,
                 captureThrown>>
  /\ UNCHANGED outsideCapture

NextCapture ==
  \/ captureCommand
  \/ healthCheck
  \/ scaleUpContainers
  \/ httpTakeBefore
  \/ httpUploadBefore
  \/ captureWait
  \/ httpTakeAfter
  \/ httpUploadAfter
  \/ httpFinish
  \/ httpCatch
  \/ connectToDashboard
  \/ dashboardCloses
  \/ scaleUpPods
  \/ wsTakeBefore
  \/ wsPushBefore
  \/ wsChunksBefore
  \/ wsTakeAfter
  \/ wsPushAfter
  \/ wsChunksAfter
  \/ notifyComparisonReady
  \/ wsFinish
  \/ wsCatch

SpecCapture == InitCapture /\ [][NextCapture]_vars

\* the step m of the capture run has started
CaptureCalled(m) == \E i \in DOMAIN captureLog : captureLog[i] = m

\* the position of the first start of the step m of the capture run
CapturePos(m) == CHOOSE i \in DOMAIN captureLog : captureLog[i] = m

\* the capture run has settled
CaptureSettled == capturePromise # Pending

C12_SameSessionId ==
  (capture.flow = "http" /\ snapshots.before.taken /\ snapshots.after.taken)
    => snapshots.before.session = snapshots.after.session

\* C13: when ZeroDowntimeSnapshotCapture.execute() settles after scale-up,
\* every container the run added has been removed and the replica count is
\* back to the count observed before scale-up, for k8s and docker alike.
C13_ScalingRestored ==
  (capture.flow = "ws" /\ CaptureSettled /\ CaptureCalled("takeSnapshot:before"))
    => /\ scaling.added \cap scaling.containers = {}
       /\ scaling.replicas = scaling.startReplicas

\* C14: if a capture run fails at any phase, the local snapshot files the run
\* already created are removed before the failure is reported to the caller.
C14_FilesRemovedOnFailure ==
  capturePromise = Rejected
    => ~snapshots.before.exists /\ ~snapshots.after.exists

\* =========================================================================
\* The analyze command (src/src/cli/leak-detector.ts)
\* =========================================================================

\* what MemlabHeapAnalyzer.analyze can return, as far as the command reads it:
\* summary.suspiciousGrowth, leaks.length and summary.totalLeaksMB
MemlabResults ==
  [kind : {"memlab"}, suspiciousGrowth : BOOLEAN, leaks : {0, 1},
   totalLeaksMB : {0, 1, 2}]

\* HeapSnapshotAnalyzer.compare: suspicious-growth =
\* (after.totalSize - before.totalSize) > configured threshold-in-bytes
compare(beforeSize, afterSize, threshold) ==
  [kind |-> "basic", suspiciousGrowth |-> (afterSize - beforeSize) > threshold]

\* --memlab defaults to true and has no negation, so options.memlab is true
InitAnalyze ==
  /\ cliOptions \in [basic : BOOLEAN, threshold : Thresholds,
                     before : FileSizes, after : FileSizes]
  /\ cliPc = "start"
  /\ cliAnalysis = NoAnalysis
  /\ cliOutput = NoFile
  /\ cliExit = <<>>
  /\ cliLog = <<>>
  /\ RunIdle
  /\ CaptureIdle
  /\ TriggerIdle
  /\ EngineIdle
  /\ LoadIdle
  /\ AgentIdle

\* const useMemlab = options.memlab && !options.basic
useMemlab == ~cliOptions.basic

\* if (useMemlab) { try { ... analysis = await analyzer.analyze(...); display }
\* catch (memlabError) { warn 'falling back to basic analyzer' } }
\* The import or analyze throws and analysis stays unset; or analyze returns
\* and the display of the result completes or throws.  if (!useMemlab) after
\* it is false, since useMemlab is a const.
analyzeMemlab ==
  /\ cliPc = "start"
  /\ useMemlab
  /\ \/ /\ cliLog' = cliLog \o <<"memlab", "memlab:threw">>
        /\ UNCHANGED cliAnalysis
     \/ \E r \in MemlabResults :
          /\ cliAnalysis' = r
          /\ \/ cliLog' = Append(cliLog, "memlab")
             \/ cliLog' = cliLog \o <<"memlab", "display:threw">>
  /\ cliPc' = "save"
  /\ UNCHANGED <<cliOptions, cliOutput, cliExit>>
  /\ UNCHANGED outsideCli

\* if (!useMemlab) { analysis = await analyzer.compare(before, after); display }
\* an error of the import or of compare reaches the outer catch: exit(2)
analyzeBasic ==
  /\ cliPc = "start"
  /\ ~useMemlab
  /\ cliLog' = Append(cliLog, "basic")
  /\ \/ /\ cliAnalysis' = compare(cliOptions.before, cliOptions.after,
                                  cliOptions.threshold)
        /\ cliPc' = "save"
        /\ UNCHANGED cliExit
     \/ /\ cliExit' = <<2>>
        /\ cliPc' = "exited"
        /\ UNCHANGED cliAnalysis
  /\ UNCHANGED <<cliOptions, cliOutput>>
  /\ UNCHANGED outsideCli

\* analysis.summary.suspiciousGrowth || (leaks && leaks.length > 0) ||
\* (summary.totalLeaksMB && summary.totalLeaksMB > 1)
hasSuspiciousGrowth(a) ==
  \/ a.suspiciousGrowth
  \/ a.kind = "memlab" /\ a.leaks > 0
  \/ a.kind = "memlab" /\ a.totalLeaksMB > 1

\* fs.writeFileSync(options.output, JSON.stringify(analysis, null, 2)), then
\* the exit code.  With analysis unset, JSON.stringify gives undefined:
\* writeFileSync throws (outer catch, exit 2) or, on an old runtime, writes the
\* text "undefined", and if (!analysis) exits 2.  With analysis set, the write
\* throws (exit 2) or the report is written and the verdict decides.
saveAndExit ==
  /\ cliPc = "save"
  /\ IF cliAnalysis = NoAnalysis
     THEN /\ cliExit' = <<2>>
          /\ \/ cliOutput' = [exists |-> TRUE, content |-> NoAnalysis]
             \/ UNCHANGED cliOutput
          /\ UNCHANGED cliLog
     ELSE \/ /\ cliOutput' = [exists |-> TRUE, content |-> cliAnalysis]
             /\ cliExit' = IF hasSuspiciousGrowth(cliAnalysis) THEN <<1>> ELSE <<0>>
             /\ UNCHANGED cliLog
          \/ /\ cliExit' = <<2>>
             /\ cliLog' = Append(cliLog, "write:threw")
             /\ UNCHANGED cliOutput
  /\ cliPc' = "exited"
  /\ UNCHANGED <<cliOptions, cliAnalysis>>
  /\ UNCHANGED outsideCli

NextAnalyze == analyzeMemlab \/ analyzeBasic \/ saveAndExit

SpecAnalyze == InitAnalyze /\ [][NextAnalyze]_vars

\* the analyze command has done the step m
CliDid(m) == \E i \in DOMAIN cliLog : cliLog[i] = m

\* C15: in the analyze command, when the memlab analyzer throws, the basic
\* analyzer runs as the fallback, a report is written to the output path, and
\* the exit code reflects the basic verdict (0 or 1), not an operational
\* error (2).
C15_FallbackToBasic ==
  (CliDid("memlab:threw") /\ cliPc = "exited")
    => /\ CliDid("basic")
       /\ cliOutput = [exists |-> TRUE,
                       content |-> compare(cliOptions.before, cliOptions.after,
                                           cliOptions.threshold)]
       /\ cliExit = <<IF compare(cliOptions.before, cliOptions.after,
                                 cliOptions.threshold).suspiciousGrowth
                      THEN 1 ELSE 0>>

\* =========================================================================
\* InContainerSnapshotTrigger (src/src/leak-detector.ts): takeSnapshot() calls
\* on one instance and the requests that pass its maintenance middleware
\* =========================================================================

InitTrigger ==
  /\ maintenanceMode = FALSE
  /\ hooks \in [before : BOOLEAN, after : BOOLEAN]
  /\ callPc = [c \in Calls |-> "idle"]
  /\ callResult = [c \in Calls |-> <<>>]
  /\ triggerFiles = [c \in Calls |-> FALSE]
  /\ callTrace = [c \in Calls |-> <<>>]
  /\ responses = <<>>
  /\ RunIdle
  /\ CaptureIdle
  /\ CliIdle
  /\ EngineIdle
  /\ LoadIdle
  /\ AgentIdle

\* the catch block without this.maintenanceMode = false
takeSnapshotCatchStaysInMaintenance(c) ==
  /\ UNCHANGED maintenanceMode
  /\ callPc' = [callPc EXCEPT ![c] = "returned"]
  /\ callResult' = [callResult EXCEPT ![c] = <<FALSE>>]

\* catch (error) { this.maintenanceMode = false; return false; }
takeSnapshotCatch(c) ==
  /\ maintenanceMode' = FALSE
  /\ callPc' = [callPc EXCEPT ![c] = "returned"]
  /\ callResult' = [callResult EXCEPT ![c] = <<FALSE>>]

\* this.maintenanceMode = false; return true
takeSnapshotReturn(c) ==
  /\ maintenanceMode' = FALSE
  /\ callPc' = [callPc EXCEPT ![c] = "returned"]
  /\ callResult' = [callResult EXCEPT ![c] = <<TRUE>>]

\* the call c has come to the events es, in this order
traced(c, es) == callTrace' = [callTrace EXCEPT ![c] = callTrace[c] \o es]

\* takeSnapshot(outputPath) up to its first await: this.maintenanceMode = true,
\* then the before hook is called if it is set, else the grace timer is started
takeSnapshotEnter(c) ==
  /\ callPc[c] = "idle"
  /\ maintenanceMode' = TRUE
  /\ callPc' = [callPc EXCEPT ![c] = IF hooks.before THEN "beforeHook" ELSE "grace"]
  /\ traced(c, IF hooks.before THEN <<"before:called">> ELSE <<>>)
  /\ UNCHANGED <<hooks, callResult, triggerFiles, responses>>
  /\ UNCHANGED outsideTrigger

\* await this.onBeforeSnapshot(): it resolves and the grace timer is started,
\* or it rejects
takeSnapshotBeforeHook(c) ==
  /\ callPc[c] = "beforeHook"
  /\ \/ /\ callPc' = [callPc EXCEPT ![c] = "grace"]
        /\ traced(c, <<"before:resolved">>)
        /\ UNCHANGED <<maintenanceMode, callResult>>
     \/ /\ takeSnapshotCatch(c)
        /\ traced(c, <<"before:rejected">>)
  /\ UNCHANGED <<hooks, triggerFiles, responses>>
  /\ UNCHANGED outsideTrigger

\* the grace period ends: v8.getHeapSnapshot(), fs.createWriteStream and pipe;
\* one of them throws, or the write is under way
takeSnapshotGrace(c) ==
  /\ callPc[c] = "grace"
  /\ \/ /\ callPc' = [callPc EXCEPT ![c] = "write"]
        /\ traced(c, <<"snapshot:started">>)
        /\ UNCHANGED <<maintenanceMode, callResult>>
     \/ /\ takeSnapshotCatch(c)
        /\ traced(c, <<"snapshot:threw">>)
  /\ UNCHANGED <<hooks, triggerFiles, responses>>
  /\ UNCHANGED outsideTrigger

\* writeStream 'finish': the file is written, then the after hook is called
\* if it is set, else the call returns true; writeStream 'error': catch
takeSnapshotWrite(c) ==
  /\ callPc[c] = "write"
  /\ \/ /\ triggerFiles' = [triggerFiles EXCEPT ![c] = TRUE]
        /\ IF hooks.after
           THEN /\ callPc' = [callPc EXCEPT ![c] = "afterHook"]
                /\ traced(c, <<"write:finish", "after:called">>)
                /\ UNCHANGED <<maintenanceMode, callResult>>
           ELSE /\ takeSnapshotReturn(c)
                /\ traced(c, <<"write:finish">>)
     \/ /\ takeSnapshotCatch(c)
        /\ traced(c, <<"write:error">>)
        /\ UNCHANGED triggerFiles
  /\ UNCHANGED <<hooks, responses>>
  /\ UNCHANGED outsideTrigger

\* await this.onAfterSnapshot(): it resolves and the call returns true, or it
\* rejects
takeSnapshotAfterHook(c) ==
  /\ callPc[c] = "afterHook"
  /\ \/ /\ takeSnapshotReturn(c)
        /\ traced(c, <<"after:resolved">>)
     \/ /\ takeSnapshotCatch(c)
        /\ traced(c, <<"after:rejected">>)
  /\ UNCHANGED <<hooks, triggerFiles, responses>>
  /\ UNCHANGED outsideTrigger

\* the middleware without the return after the 503 answer
maintenanceMiddlewareFallsThrough ==
  /\ Len(responses) < MaxRequests
  /\ responses' = Append(responses,
       [maintenance |-> maintenanceMode,
        status |-> IF maintenanceMode THEN <<503>> ELSE <<>>,
        next |-> 1])
  /\ UNCHANGED <<maintenanceMode, hooks, callPc, callResult, triggerFiles, callTrace>>
  /\ UNCHANGED outsideTrigger

\* (req, res, next) => { if (this.maintenanceMode) { res.status(503).json(...);
\* return; } next(); } for one request; maintenance records the mode the
\* request found
maintenanceMiddleware ==
  /\ Len(responses) < MaxRequests
  /\ responses' = Append(responses,
       IF maintenanceMode
       THEN [maintenance |-> TRUE, status |-> <<503>>, next |-> 0]
       ELSE [maintenance |-> FALSE, status |-> <<>>, next |-> 1])
  /\ UNCHANGED <<maintenanceMode, hooks, callPc, callResult, triggerFiles, callTrace>>
  /\ UNCHANGED outsideTrigger

NextTrigger ==
  \/ \E c \in Calls : takeSnapshotEnter(c)
  \/ \E c \in Calls : takeSnapshotBeforeHook(c)
  \/ \E c \in Calls : takeSnapshotGrace(c)
  \/ \E c \in Calls : takeSnapshotWrite(c)
  \/ \E c \in Calls : takeSnapshotAfterHook(c)
  \/ maintenanceMiddleware

SpecTrigger == InitTrigger /\ [][NextTrigger]_vars

\* C16: the maintenance middleware answers a request with status 503 and does
\* not call next() exactly when the trigger is in maintenance mode at the
\* moment the request arrives; otherwise it calls next() exactly once and
\* sends no response itself.
C16_MaintenanceMiddleware ==
  \A i \in DOMAIN responses :
    /\ responses[i].maintenance <=> (responses[i].status = <<503>> /\ responses[i].next = 0)
    /\ ~responses[i].maintenance => (responses[i].status = <<>> /\ responses[i].next = 1)

\* a request was rejected during a snapshot and a later one was passed on
C16_Witness ==
  \E i, j \in DOMAIN responses :
    /\ i < j
    /\ responses[i].maintenance /\ responses[i].status = <<503>>
    /\ ~responses[j].maintenance /\ responses[j].next = 1
    /\ \E c \in Calls : callResult[c] # <<>>

\* =========================================================================
\* The analysis engine: Differ, Classifier & Ranker.  The analyzer module
\* (analysis/snapshot-analyzer.js) is only imported by the sources at hand; the
\* stages are modelled from the design of the engine (Differ, Classifier &
\* Ranker) and the classification logic documented with it.
\* =========================================================================

\* the type names of the model, in lexicographic order
TypeNames == <<"Array", "Map", "Object">>

\* the position of the type name n in the lexicographic order
NameIndex(n) == CHOOSE i \in DOMAIN TypeNames : TypeNames[i] = n

\* a.type-name < b.type-name lexicographically
NameBefore(a, b) == NameIndex(a) < NameIndex(b)

\* the instance counts of a type in a small snapshot
TypeCounts == {1, 2}

\* the TypeAggregate rows of small snapshots: instance count and retained size
SmallAggregates == [count : TypeCounts, size : 0..MaxTypeSize]

\* every mapping from some of the names in S to the aggregates in A
Mappings(S, A) == UNION {[T -> A] : T \in SUBSET S}

\* retained sizes, in MB, on both sides of each severity threshold
SeverityMB == {0, 1, 3, 4, 6, 7, 11, 12, 100, 110, 111, 150, 151, 200, 201}

\* the TypeAggregate rows of large snapshots
LargeAggregates == [count : {1}, size : {mb * BytesPerMB : mb \in SeverityMB}]

\* two aggregated snapshots handed to the Differ: up to three types of a few
\* bytes each, or up to two types of many MB
InitEngine ==
  /\ \/ /\ aggregates \in [before : Mappings({"Array", "Map", "Object"}, SmallAggregates),
                           after : Mappings({"Array", "Map", "Object"}, SmallAggregates)]
     \/ /\ aggregates \in [before : Mappings({"Array", "Object"}, LargeAggregates),
                           after : Mappings({"Array", "Object"}, LargeAggregates)]
  /\ enginePc = "diff"
  /\ typeDeltas = <<>>
  /\ ranked = <<>>
  /\ RunIdle
  /\ CaptureIdle
  /\ CliIdle
  /\ TriggerIdle
  /\ LoadIdle
  /\ AgentIdle

\* -------------------------------------------------------------- the Differ
\* For a type absent in one mapping, the missing side's count and size are
\* treated as zero
countOf(m, n) == IF n \in DOMAIN m THEN m[n].count ELSE 0
sizeOf(m, n) == IF n \in DOMAIN m THEN m[n].size ELSE 0

\* the sentinel "infinite growth" marker
InfiniteGrowth == [kind |-> "infinite"]

\* a growth rate num / den, den > 0
Ratio(num, den) == [kind |-> "ratio", num |-> num, den |-> den]

\* growth-rate = delta-size / before.size when before.size > 0, else the
\* sentinel if after.size > 0, else 0
growthRateOf(beforeSize, afterSize) ==
  IF beforeSize > 0 THEN Ratio(afterSize - beforeSize, beforeSize)
  ELSE IF afterSize > 0 THEN InfiniteGrowth
  ELSE Ratio(0, 1)

\* the TypeDelta of the type n
typeDelta(before, after, n) ==
  [type |-> n,
   countBefore |-> countOf(before, n),
   countAfter |-> countOf(after, n),
   retainedSizeBefore |-> sizeOf(before, n),
   retainedSizeAfter |-> sizeOf(after, n),
   deltaSize |-> sizeOf(after, n) - sizeOf(before, n),
   deltaCount |-> countOf(after, n) - countOf(before, n),
   growthRate |-> growthRateOf(sizeOf(before, n), sizeOf(after, n))]

\* differNames that looks at the types of the before mapping only
differNamesOfBefore(before, after) == DOMAIN before

\* the union of type names seen in either mapping
differNames(before, after) == DOMAIN before \cup DOMAIN after

RECURSIVE deltasFrom(_, _, _, _)
\* the TypeDelta rows of the names in todo that come at or after position i
deltasFrom(before, after, todo, i) ==
  IF i > Len(TypeNames) THEN <<>>
  ELSE IF TypeNames[i] \in todo
       THEN <<typeDelta(before, after, TypeNames[i])>>
              \o deltasFrom(before, after, todo, i + 1)
       ELSE deltasFrom(before, after, todo, i + 1)

\* the Differ: a TypeDelta for every name of the union, none dropped
Differ(before, after) == deltasFrom(before, after, differNames(before, after), 1)

\* ------------------------------------------------- the Classifier & Ranker
\* RateAbove that takes the sentinel for a rate above every threshold
RateAboveOrInfinite(g, k) == g.kind = "infinite" \/ g.num > k * g.den

\* growthRate > k; the sentinel is a case of its own and is above no threshold
RateAbove(g, k) == g.kind = "ratio" /\ g.num > k * g.den

\* sizeMB > k for sizeMB = deltaSize / (1024 * 1024)
SizeAboveMB(deltaSize, k) == deltaSize > k * BytesPerMB

\* severityOf with && in place of ||
severityOfBoth(deltaSize, growthRate) ==
  IF SizeAboveMB(deltaSize, 100) /\ RateAbove(growthRate, 10) THEN "critical"
  ELSE IF SizeAboveMB(deltaSize, 50) /\ RateAbove(growthRate, 5) THEN "high"
  ELSE IF SizeAboveMB(deltaSize, 10) /\ RateAbove(growthRate, 2) THEN "medium"
  ELSE "low"

\* if (sizeMB > 100 || growthRate > 10) return 'critical';
\* if (sizeMB > 50 || growthRate > 5) return 'high';
\* if (sizeMB > 10 || growthRate > 2) return 'medium'; return 'low';
severityOf(deltaSize, growthRate) ==
  IF SizeAboveMB(deltaSize, 100) \/ RateAbove(growthRate, 10) THEN "critical"
  ELSE IF SizeAboveMB(deltaSize, 50) \/ RateAbove(growthRate, 5) THEN "high"
  ELSE IF SizeAboveMB(deltaSize, 10) \/ RateAbove(growthRate, 2) THEN "medium"
  ELSE "low"

\* the offender made of the TypeDelta d
offenderOf(d) ==
  [type |-> d.type, countBefore |-> d.countBefore, countAfter |-> d.countAfter,
   retainedSizeBefore |-> d.retainedSizeBefore,
   retainedSizeAfter |-> d.retainedSizeAfter,
   deltaSize |-> d.deltaSize, deltaCount |-> d.deltaCount,
   growthRate |-> d.growthRate,
   severity |-> severityOf(d.deltaSize, d.growthRate)]

\* precedes without the tie-break on the type name
precedesBySizeOnly(a, b) == a.deltaSize > b.deltaSize

\* sorted by delta-size descending; ties broken by type name ascending
precedes(a, b) ==
  \/ a.deltaSize > b.deltaSize
  \/ a.deltaSize = b.deltaSize /\ NameBefore(a.type, b.type)

RECURSIVE insert(_, _)
\* the sorted list sorted with the offender o put at its place
insert(o, sorted) ==
  IF sorted = <<>> THEN <<o>>
  ELSE IF precedes(o, Head(sorted)) THEN <<o>> \o sorted
  ELSE <<Head(sorted)>> \o insert(o, Tail(sorted))

RECURSIVE rank(_, _)
\* the rows of deltas from position i on with delta-size > 0, classified and
\* sorted; a type with delta-size <= 0 is never an offender
rank(deltas, i) ==
  IF i > Len(deltas) THEN <<>>
  ELSE IF deltas[i].deltaSize > 0
       THEN insert(offenderOf(deltas[i]), rank(deltas, i + 1))
       ELSE rank(deltas, i + 1)

\* Diff: the join of the two aggregations
diff ==
  /\ enginePc = "diff"
  /\ typeDeltas' = Differ(aggregates.before, aggregates.after)
  /\ enginePc' = "classify"
  /\ UNCHANGED <<aggregates, ranked>>
  /\ UNCHANGED outsideEngine

\* Classify: offenders, severities and ranking
classify ==
  /\ enginePc = "classify"
  /\ ranked' = rank(typeDeltas, 1)
  /\ enginePc' = "done"
  /\ UNCHANGED <<aggregates, typeDeltas>>
  /\ UNCHANGED outsideEngine

NextEngine == diff \/ classify

SpecEngine == InitEngine /\ [][NextEngine]_vars

\* the severities, lowest first
SeverityRank(sev) ==
  CASE sev = "low" -> 0 [] sev = "medium" -> 1 [] sev = "high" -> 2
    [] sev = "critical" -> 3

\* the classification by delta-size in MB alone
bySize(deltaSize) ==
  IF deltaSize > 100 * BytesPerMB THEN "critical"
  ELSE IF deltaSize > 50 * BytesPerMB THEN "high"
  ELSE IF deltaSize > 10 * BytesPerMB THEN "medium"
  ELSE "low"

\* the classification by growth-rate alone
byRate(g) ==
  IF g.kind = "ratio" /\ g.num > 10 * g.den THEN "critical"
  ELSE IF g.kind = "ratio" /\ g.num > 5 * g.den THEN "high"
  ELSE IF g.kind = "ratio" /\ g.num > 2 * g.den THEN "medium"
  ELSE "low"

\* the higher of two severities
HigherOf(s1, s2) == IF SeverityRank(s1) >= SeverityRank(s2) THEN s1 ELSE s2

OnlyInAfter ==
  {n \in DOMAIN aggregates.after \ DOMAIN aggregates.before :
     aggregates.after[n].size > 0}

\* C18: a type present only in the after snapshot gets delta-count = its after
\* count, delta-size = its after size and the infinite-growth sentinel as
\* growth-rate, and its severity is that of its delta-size in MB alone.
C18_OnlyInAfterBySizeAlone ==
  enginePc = "done" =>
    \A n \in OnlyInAfter :
      \E i \in DOMAIN ranked :
        /\ ranked[i].type = n
        /\ ranked[i].deltaCount = aggregates.after[n].count
        /\ ranked[i].deltaSize = aggregates.after[n].size
        /\ ranked[i].growthRate = InfiniteGrowth
        /\ ranked[i].severity = bySize(ranked[i].deltaSize)

\* a type that appeared with 11 MB is ranked medium, another with less is low
C18_Witness ==
  /\ enginePc = "done"
  /\ \E i, j \in DOMAIN ranked :
       /\ ranked[i].type \in OnlyInAfter /\ ranked[i].severity = "medium"
       /\ ranked[j].type \in OnlyInAfter /\ ranked[j].severity = "low"

\* C19: the Differ yields exactly one row for every type name of the before or
\* the after mapping; an absent side counts as count 0 and size 0; and in
\* every row deltaSize = retainedSizeAfter - retainedSizeBefore and
\* deltaCount = countAfter - countBefore.
C19_DifferRows ==
  enginePc \in {"classify", "done"} =>
    /\ \A n \in DOMAIN aggregates.before \cup DOMAIN aggregates.after :
         Cardinality({i \in DOMAIN typeDeltas : typeDeltas[i].type = n}) = 1
    /\ \A i \in DOMAIN typeDeltas :
         LET d == typeDeltas[i]
             inBefore == d.type \in DOMAIN aggregates.before
             inAfter == d.type \in DOMAIN aggregates.after
         IN /\ inBefore \/ inAfter
            /\ d.countBefore = IF inBefore THEN aggregates.before[d.type].count ELSE 0
            /\ d.retainedSizeBefore =
                 IF inBefore THEN aggregates.before[d.type].size ELSE 0
            /\ d.countAfter = IF inAfter THEN aggregates.after[d.type].count ELSE 0
            /\ d.retainedSizeAfter =
                 IF inAfter THEN aggregates.after[d.type].size ELSE 0
            /\ d.deltaSize = d.retainedSizeAfter - d.retainedSizeBefore
            /\ d.deltaCount = d.countAfter - d.countBefore

\* one type vanished, one appeared, one is in both snapshots and shrank
C19_Witness ==
  /\ enginePc = "classify"
  /\ Len(typeDeltas) = 3
  /\ \E i, j, k \in DOMAIN typeDeltas :
       /\ typeDeltas[i].type \notin DOMAIN aggregates.after
       /\ typeDeltas[j].type \notin DOMAIN aggregates.before
       /\ typeDeltas[k].countBefore > 0 /\ typeDeltas[k].countAfter > 0
       /\ typeDeltas[k].deltaSize < 0 /\ typeDeltas[k].deltaCount > 0

\* C20: in every result, for any two offenders A and B, A precedes B if
\* A.deltaSize > B.deltaSize, or if the delta sizes are equal and A's type name
\* is lexicographically smaller; so the first N offenders are the N largest.
C20_OffenderOrder ==
  /\ \A i, j \in DOMAIN ranked :
       LET A == ranked[i]
           B == ranked[j]
       IN (\/ A.deltaSize > B.deltaSize
           \/ A.deltaSize = B.deltaSize /\ NameBefore(A.type, B.type)) => i < j
  /\ \A N \in 0..Len(ranked) :
       \A i \in 1..N : \A j \in (N + 1)..Len(ranked) :
         ranked[i].deltaSize >= ranked[j].deltaSize

\* three offenders, the last two with equal delta sizes
C20_Witness ==
  /\ enginePc = "done"
  /\ Len(ranked) = 3
  /\ ranked[1].deltaSize > ranked[2].deltaSize
  /\ ranked[2].deltaSize = ranked[3].deltaSize


\* =========================================================================
\* LeakDetectionController.analyzeSnapshots, statement by statement: the load
\* of each snapshot (fs.statSync) and the computation of growth and verdict
\* =========================================================================

\* the result of fs.statSync, or its absence
StatPending == [state |-> "pending"]
StatFailed == [state |-> "failed"]
StatDone(size) == [state |-> "done", size |-> size]

\* the files analyzeSnapshots may find at beforePath and afterPath
HostFiles == {NoFile} \cup {File(size) : size \in FileSizes}

\* analyzeSnapshots is entered with any two paths and any configuration
InitLoad ==
  /\ config \in Configs
  /\ pc = "idle"
  /\ hostFiles \in [before : HostFiles, after : HostFiles]
  /\ Fresh
  /\ loadPc = "statBefore"
  /\ stats = [before |-> StatPending, after |-> StatPending]
  /\ CaptureIdle
  /\ CliIdle
  /\ TriggerIdle
  /\ EngineIdle
  /\ AgentIdle

\* afterStat that goes on although fs.statSync threw
afterStatIgnoring(ok, next) == next

\* where analyzeSnapshots is after a call of fs.statSync: at the next
\* statement, or out of the method when the call threw
afterStat(ok, next) == IF ok THEN next ELSE "threw"

\* fs.statSync(path) of the file of the given phase: it throws when the file
\* is missing (and can throw on a file that is there), else it returns the size
statSync(phase, next) ==
  \/ /\ hostFiles[phase].exists
     /\ stats' = [stats EXCEPT ![phase] = StatDone(hostFiles[phase].size)]
     /\ loadPc' = afterStat(TRUE, next)
  \/ /\ stats' = [stats EXCEPT ![phase] = StatFailed]
     /\ loadPc' = afterStat(FALSE, next)

\* const beforeStats = fs.statSync(beforePath)
statBefore ==
  /\ loadPc = "statBefore"
  /\ statSync("before", "statAfter")
  /\ UNCHANGED runVars
  /\ UNCHANGED outsideLoad

\* const afterStats = fs.statSync(afterPath)
statAfter ==
  /\ loadPc = "statAfter"
  /\ statSync("after", "compute")
  /\ UNCHANGED runVars
  /\ UNCHANGED outsideLoad

\* growthMB, suspiciousGrowth and the SnapshotAnalysis, from the two stats
computeAnalysis ==
  /\ loadPc = "compute"
  /\ analysis' = analyzeSnapshots(stats.before.size, stats.after.size,
                                  config.analysisThreshold)
  /\ loadPc' = "returned"
  /\ UNCHANGED <<config, pc, replacementId, attempts, target, replacement, hostFiles,
                 reports, webhookPosts, log, thrown, promise, analyses>>
  /\ UNCHANGED stats
  /\ UNCHANGED outsideLoad

NextLoad == statBefore \/ statAfter \/ computeAnalysis

SpecLoad == InitLoad /\ [][NextLoad]_vars

\* C22: the diff and verdict computation starts only after the loading of both
\* snapshots has completed, and if either load fails the diff never runs.
C22_DiffAfterBothLoads ==
  /\ (loadPc \in {"compute", "returned"} \/ analysis # NoAnalysis)
       => stats.before.state = "done" /\ stats.after.state = "done"
  /\ (stats.before.state = "failed" \/ stats.after.state = "failed")
       => loadPc = "threw" /\ analysis = NoAnalysis

\* both loads completed and the verdict was computed from what they read
C22_Witness ==
  /\ loadPc = "returned"
  /\ analysis # NoAnalysis
  /\ analysis.before.totalSize = stats.before.size
  /\ analysis.after.totalSize = stats.after.size
  /\ analysis.summary.suspiciousGrowth


\* =========================================================================
\* MemWatchAgent: start(config) and stop()
\* =========================================================================

ServiceNames == {"a", "b"}
LeakThresholds == {1, 100}

\* the optional keys a caller may pass, with a value for each
OptionalConfigs ==
  {<<>>}
    \cup {[leakThresholdMB |-> t] : t \in LeakThresholds}
    \cup {[enableHeapSnapshots |-> TRUE]}
    \cup {[leakThresholdMB |-> t, enableHeapSnapshots |-> TRUE] : t \in LeakThresholds}

\* { ...a, ...b }: the keys of both, the value of b where b has the key
Spread(a, b) ==
  [k \in DOMAIN a \cup DOMAIN b |-> IF k \in DOMAIN b THEN b[k] ELSE a[k]]

\* MemWatchConfig values: serviceName and any of the optional keys
MemWatchConfigs ==
  {Spread([serviceName |-> n], o) : n \in ServiceNames, o \in OptionalConfigs}

\* the configuration built by assigning the passed config into the defaults
\* object itself
configOfAssigned(defaults, passed) ==
  [config |-> Spread(defaults, passed),
   defaults |-> [k \in DOMAIN defaults |->
                   IF k \in DOMAIN passed THEN passed[k] ELSE defaults[k]]]

\* this.config = { ...MemWatchAgent.DEFAULT_CONFIG, ...config }: a new object,
\* the defaults object is only read
configOf(defaults, passed) ==
  [config |-> Spread(defaults, passed), defaults |-> defaults]

\* start(config), with passed for its argument: ignored with a warning while the agent is running
start(passed) ==
  /\ Len(calls) < MaxAgentCalls
  /\ calls' = Append(calls, [op |-> "start", config |-> passed, ran |-> ~isRunning])
  /\ IF isRunning
       THEN UNCHANGED <<isRunning, agentConfig, DEFAULT_CONFIG, handles>>
       ELSE /\ agentConfig' = configOf(DEFAULT_CONFIG, passed).config
            /\ DEFAULT_CONFIG' = configOf(DEFAULT_CONFIG, passed).defaults
            /\ isRunning' = TRUE
            /\ \E connected \in BOOLEAN :
                 handles' = [intervalId |-> TRUE, eventLoopMonitor |-> TRUE,
                             ws |-> connected]
  /\ UNCHANGED outsideAgent

\* stop(): ignored with a warning while the agent is not running
stop ==
  /\ Len(calls) < MaxAgentCalls
  /\ calls' = Append(calls, [op |-> "stop", ran |-> isRunning])
  /\ IF ~isRunning
       THEN UNCHANGED <<isRunning, handles>>
       ELSE /\ isRunning' = FALSE
            /\ handles' = [intervalId |-> FALSE, eventLoopMonitor |-> FALSE,
                           ws |-> FALSE]
  /\ UNCHANGED <<agentConfig, DEFAULT_CONFIG>>
  /\ UNCHANGED outsideAgent

InitAgent ==
  /\ AgentIdle
  /\ RunIdle
  /\ CaptureIdle
  /\ CliIdle
  /\ TriggerIdle
  /\ EngineIdle
  /\ LoadIdle

NextAgent ==
  \/ \E passed \in MemWatchConfigs : start(passed)
  \/ stop

SpecAgent == InitAgent /\ [][NextAgent]_vars

\* the calls of start() that were not ignored, by position
StartsRun == {i \in 1..Len(calls) : calls[i].op = "start" /\ calls[i].ran}
LastStartRun == CHOOSE i \in StartsRun : \A j \in StartsRun : j <= i

\* C23 (as stated): the effective configuration of each start() call is the
\* fixed defaults overridden only by the config passed to that call, and the
\* default configuration object is never modified.
C23_EveryStartSetsConfig ==
  /\ DEFAULT_CONFIG = DefaultMemWatchConfig
  /\ (calls # <<>> /\ calls[Len(calls)].op = "start")
       => agentConfig = Spread(DefaultMemWatchConfig, calls[Len(calls)].config)

\* C23 (amended): each start() call made while the agent is not running sets
\* the configuration to the fixed defaults overridden only by the config of
\* that call, whatever was passed to earlier calls; a start() call made while
\* the agent is running changes nothing; the default configuration object is
\* never modified.
C23_StartWhileStoppedSetsConfig ==
  /\ DEFAULT_CONFIG = DefaultMemWatchConfig
  /\ StartsRun # {}
       => agentConfig = Spread(DefaultMemWatchConfig, calls[LastStartRun].config)
  /\ StartsRun = {} => agentConfig = EmptyObject

\* start(A) with a threshold and snapshots, stop(), start(B) with neither: the
\* threshold and the snapshot switch are the defaults again
C23_Witness ==
  /\ Len(calls) = 3
  /\ calls[1].op = "start" /\ calls[1].ran
  /\ calls[2].op = "stop" /\ calls[2].ran
  /\ calls[3].op = "start" /\ calls[3].ran
  /\ DOMAIN calls[1].config = {"serviceName", "leakThresholdMB", "enableHeapSnapshots"}
  /\ DOMAIN calls[3].config = {"serviceName"}
  /\ calls[1].config.serviceName # calls[3].config.serviceName
  /\ isRunning
  /\ agentConfig.leakThresholdMB = 50
  /\ agentConfig.enableHeapSnapshots = FALSE

\* C21: every analysis result carries a confidence score in the range [0,1],
\* and the score is 0 whenever suspiciousGrowth is false.
C21_ConfidenceInRange ==
  analysis # NoAnalysis =>
    /\ "confidence" \in DOMAIN analysis.summary
    /\ analysis.summary.confidence.num >= 0
    /\ analysis.summary.confidence.num <= analysis.summary.confidence.den
    /\ ~analysis.summary.suspiciousGrowth => analysis.summary.confidence.num = 0

\* =========================================================================
\* takeSnapshot() of InContainerSnapshotTrigger: maintenance mode, result and
\* hooks
\* =========================================================================

\* the call c is between its entry and its return
InProgress(c) == callPc[c] \notin {"idle", "returned"}

\* the call c has come to the event e
Came(c, e) == \E i \in DOMAIN callTrace[c] : callTrace[c][i] = e

\* the call c has come to the event e1 and only later to the event e2
CameBefore(c, e1, e2) ==
  \E i, j \in DOMAIN callTrace[c] :
    i < j /\ callTrace[c][i] = e1 /\ callTrace[c][j] = e2

\* the events that take a call to its catch block
ErrorEvents == {"before:rejected", "snapshot:threw", "write:error", "after:rejected"}

\* C24: while any takeSnapshot() call on an InContainerSnapshotTrigger is in
\* progress, from its entry until it returns, isInMaintenanceMode() is true
\* (and so the middleware rejects requests), also when two takeSnapshot() calls
\* on the same instance overlap in time.
C24_MaintenanceWhileInProgress ==
  (\E c \in Calls : InProgress(c)) => maintenanceMode

\* C25: takeSnapshot() never rejects; it resolves true only if the snapshot
\* file write finished and the after hook completed, resolves false on any
\* error (hook failure or write error), and on every path, when no other
\* takeSnapshot call is running, maintenance mode is off once it has returned.
C25_ResultOfTakeSnapshot ==
  /\ \A c \in Calls :
       /\ callPc[c] = "returned" <=> callResult[c] \in {<<TRUE>>, <<FALSE>>}
       /\ callResult[c] = <<TRUE>>
            => /\ triggerFiles[c]
               /\ Came(c, "write:finish")
               /\ hooks.after => CameBefore(c, "write:finish", "after:resolved")
               /\ \A e \in ErrorEvents : ~Came(c, e)
       /\ (\E e \in ErrorEvents : Came(c, e))
            => callPc[c] = "returned" /\ callResult[c] = <<FALSE>>
  /\ ((\E c \in Calls : callPc[c] = "returned") /\ (\A c \in Calls : ~InProgress(c)))
       => ~maintenanceMode

\* one call resolved true after its after hook, another resolved false on a
\* write error, and no call is running
C25_Witness ==
  /\ hooks.after
  /\ \E c, d \in Calls :
       /\ callResult[c] = <<TRUE>> /\ Came(c, "after:resolved")
       /\ callResult[d] = <<FALSE>> /\ Came(d, "write:error")
  /\ \A c \in Calls : ~InProgress(c)
  /\ ~maintenanceMode

\* C26: in takeSnapshot(), the onBeforeSnapshot hook completes before the heap
\* snapshot is started and the onAfterSnapshot hook is invoked only after the
\* snapshot file has been completely written, both while maintenance mode is
\* on; if the before hook rejects, no snapshot file is written and the after
\* hook is never invoked.
C26_HooksAroundSnapshot ==
  \A c \in Calls :
    /\ (hooks.before /\ Came(c, "snapshot:started"))
         => CameBefore(c, "before:resolved", "snapshot:started")
    /\ Came(c, "after:called")
         => triggerFiles[c] /\ CameBefore(c, "write:finish", "after:called")
    /\ callPc[c] \in {"beforeHook", "afterHook"} => maintenanceMode
    /\ Came(c, "before:rejected")
         => /\ ~triggerFiles[c]
            /\ ~Came(c, "snapshot:started")
            /\ ~Came(c, "after:called")

====
